---- MODULE Spec2Model ----
(***************************************************************************)
(* A model of the AI News Summarizer pipeline (src/main.py):               *)
(* get_news -> summarize_news -> generate_pdf, run by the Streamlit UI     *)
(* and cached per topic in st.session_state.                               *)
(*                                                                         *)
(* Text is a sequence of tokens.  A token is one character ("a", "+",      *)
(* " ", ".") or, in a language-model response, one of the literal markers  *)
(* the parser searches for ("Headline:", "Summary:", "Tags:", "Tag:"),     *)
(* kept whole.  Fixed literals of the program ("Headline unavailable")     *)
(* are one token each.                                                     *)
(***************************************************************************)
EXTENDS Integers, Sequences, FiniteSets, TLC

(***************************************************************************)
(* Bounds of the model.                                                    *)
(***************************************************************************)
MaxTopicLen == 3
MaxTitleLen == 3
MaxFetchResp == 6
MaxPipeResp == 2
MaxLLMLen == 4
MaxChunks == 3
MaxReruns == 2

(***************************************************************************)
(* Program constants.                                                      *)
(***************************************************************************)
MaxArticles == 5
MaxTags == 3
TrimLimit == 700
PromptLimit == 1500

(***************************************************************************)
(* Characters and Python's str / re primitives.                            *)
(***************************************************************************)
Min(a, b) == IF a < b THEN a ELSE b

\* Python's \w on the characters the model uses.
IsWordChar(c) == c \in {"a", "b", "A", "B", "e", "1", "_", "E_ACUTE"}

\* Python's \s.
IsSpace(c) == c \in {" ", "\n"}

\* str.lower(), one character.
LowerChar(c) == IF c = "A" THEN "a" ELSE IF c = "B" THEN "b" ELSE c

\* str.lower()
Lower(s) == CHOOSE r \in {[i \in 1..Len(v) |-> LowerChar(v[i])] : v \in {s}} : TRUE

\* TLC hands an operator its arguments unevaluated and, where it checks
\* whether an action is enabled, evaluates them again at every use.  The
\* primitives below therefore bind the value of their text once, as the one
\* element v of the set {s}.

\* s[:n]
Take(s, n) == CHOOSE r \in {SubSeq(v, 1, Min(n, Len(v))) : v \in {s}} : TRUE

\* s[n:]
Drop(s, n) == CHOOSE r \in {SubSeq(v, n + 1, Len(v)) : v \in {s}} : TRUE

\* str.lstrip() / str.rstrip() / str.strip()
LStrip(s) ==
    CHOOSE r \in
        {LET ns == {i \in 1..Len(v) : ~IsSpace(v[i])}
         IN  IF ns = {} THEN <<>>
             ELSE SubSeq(v, CHOOSE i \in ns : \A j \in ns : i <= j, Len(v))
         : v \in {s}} : TRUE

RStrip(s) ==
    CHOOSE r \in
        {LET ns == {i \in 1..Len(v) : ~IsSpace(v[i])}
         IN  IF ns = {} THEN <<>>
             ELSE SubSeq(v, 1, CHOOSE i \in ns : \A j \in ns : j <= i)
         : v \in {s}} : TRUE

Strip(s) == RStrip(LStrip(s))

\* tok in s
Contains(s, tok) == \E v \in {s} : \E i \in 1..Len(v) : v[i] = tok

\* The index of the first tok in s, 0 when there is none.
IndexOf(s, tok) ==
    CHOOSE r \in
        {LET at == {i \in 1..Len(v) : v[i] = tok}
         IN  IF at = {} THEN 0 ELSE CHOOSE i \in at : \A j \in at : i <= j
         : v \in {s}} : TRUE

\* s.split(tok)[0]
SplitHead(s, tok) ==
    CHOOSE r \in
        {IF Contains(v, tok) THEN SubSeq(v, 1, IndexOf(v, tok) - 1) ELSE v
         : v \in {s}} : TRUE

\* s.split(tok)[1], for s that contains tok
SplitSecond(s, tok) ==
    CHOOSE r \in {SplitHead(Drop(v, IndexOf(v, tok)), tok) : v \in {s}} : TRUE

\* s.split(tok), every piece
RECURSIVE SplitOn(_, _)
SplitOn(s, tok) ==
    CHOOSE r \in
        {IF Contains(v, tok)
         THEN <<SplitHead(v, tok)>> \o SplitOn(Drop(v, IndexOf(v, tok)), tok)
         ELSE <<v>>
         : v \in {s}} : TRUE

\* s.split(): the maximal runs of non-whitespace characters
RECURSIVE SplitWords(_)
SplitWords(s) ==
    CHOOSE r \in
        {LET ws == {i \in 1..Len(t) : IsSpace(t[i])}
             e  == IF ws = {} THEN Len(t) + 1
                   ELSE CHOOSE i \in ws : \A j \in ws : i <= j
         IN  IF t = <<>> THEN <<>>
             ELSE <<SubSeq(t, 1, e - 1)>> \o SplitWords(Drop(t, e - 1))
         : t \in {LStrip(s)}} : TRUE

\* Every sequence of at most n tokens of the alphabet.
Texts(alphabet, n) == UNION {[1..k -> alphabet] : k \in 0..n}

(***************************************************************************)
(* is_relevant (src/main.py 37-40).                                        *)
(***************************************************************************)
\* The regular expression's \b at position k of text (between text[k] and
\* text[k+1]): exactly one of the two neighbours is a word character; what
\* lies outside the text is not one.
WordBoundary(text, k) ==
    LET before == k >= 1 /\ k <= Len(text) /\ IsWordChar(text[k])
        after  == k + 1 >= 1 /\ k + 1 <= Len(text) /\ IsWordChar(text[k + 1])
    IN  before # after

\* The places where word occurs in text: p such that text[p+1 .. p+Len(word)] = word.
Occurrences(word, text) ==
    {p \in 0..(Len(text) - Len(word)) : SubSeq(text, p + 1, p + Len(word)) = word}

\* re.search(rf"\b{re.escape(word)}\b", text)
SearchWholeWord(word, text) ==
    \E p \in Occurrences(word, text) :
        WordBoundary(text, p) /\ WordBoundary(text, p + Len(word))

\* f"{title} {description} {content}".lower()
CombinedText(article) ==
    Lower(article.title \o <<" ">> \o article.description \o <<" ">> \o article.content)

is_relevant(article, topic) ==
    LET topic_keywords == SplitWords(Lower(topic))
    IN  \A k \in 1..Len(topic_keywords) :
            SearchWholeWord(topic_keywords[k], CombinedText(article))

(***************************************************************************)
(* get_news (src/main.py 43-67).  The NewsAPI response is a record         *)
(* [status, articles]; a raw article carries its source as a record with   *)
(* a name.  A field the backend leaves out reads as the empty text.        *)
(***************************************************************************)
\* The dictionary get_news builds from one raw article.
ArticleOf(raw) ==
    [title       |-> raw.title,
     description |-> raw.description,
     content     |-> raw.content,
     source      |-> raw.source.name,
     publishedAt |-> raw.publishedAt,
     url         |-> raw.url]

\* get_news with the [:5] of line 67 left out.
get_news_Uncapped(topic, response) ==
    LET kept == IF response.status = "ok"
                THEN SelectSeq(response.articles, LAMBDA a : is_relevant(a, topic))
                ELSE <<>>
    IN  [i \in 1..Len(kept) |-> ArticleOf(kept[i])]

\* get_news with the status test of line 56 left out.
get_news_AnyStatus(topic, response) ==
    LET kept == SelectSeq(response.articles, LAMBDA a : is_relevant(a, topic))
    IN  Take([i \in 1..Len(kept) |-> ArticleOf(kept[i])], MaxArticles)

get_news(topic, response) ==
    LET kept == IF response.status = "ok"
                THEN SelectSeq(response.articles, LAMBDA a : is_relevant(a, topic))
                ELSE <<>>
    IN  Take([i \in 1..Len(kept) |-> ArticleOf(kept[i])], MaxArticles)

(***************************************************************************)
(* format_date (src/main.py 254-259).  An ISO-8601 timestamp is the token  *)
(* sequence  YYYY - MM - DD T hh : mm : ss [Z | +00:00].                   *)
(***************************************************************************)
Years == {"2024"}

Months == {"03", "12"}

Days == {"05", "31"}

Hours == {"00", "09", "12", "14"}

Minutes == {"30"}

Seconds == {"00"}

\* strftime("%B")
MonthName(mm) == IF mm = "03" THEN "March" ELSE "December"

\* strftime("%I")
Hour12(hh) ==
    IF hh = "00" THEN "12" ELSE IF hh = "09" THEN "09"
    ELSE IF hh = "12" THEN "12" ELSE "02"

\* strftime("%p")
AmPm(hh) == IF hh \in {"00", "09"} THEN "AM" ELSE "PM"

\* iso_date.replace("Z", "+00:00")
ReplaceZ(s) == [i \in 1..Len(s) |-> IF s[i] = "Z" THEN "+00:00" ELSE s[i]]

\* Whether datetime.fromisoformat accepts s.
ParsesAsIso(s) ==
    /\ Len(s) \in {11, 12}
    /\ s[1] \in Years /\ s[2] = "-" /\ s[3] \in Months /\ s[4] = "-" /\ s[5] \in Days
    /\ s[6] = "T" /\ s[7] \in Hours /\ s[8] = ":" /\ s[9] \in Minutes
    /\ s[10] = ":" /\ s[11] \in Seconds
    /\ (Len(s) = 12 => s[12] = "+00:00")

format_date(iso_date) ==
    LET s == ReplaceZ(iso_date)
    IN  IF ParsesAsIso(s)
        THEN <<MonthName(s[3]), " ", s[5], ", ", s[1], " at ",
               Hour12(s[7]), ":", s[9], " ", AmPm(s[7])>>
        ELSE iso_date

(***************************************************************************)
(* summarize_article_tool (src/main.py 70-128).  The language model's      *)
(* answer is any text, or the call raises.                                 *)
(***************************************************************************)
\* clean = lambda x: re.sub(r'[^\w\s.,!?]', '', x or "")
CleanInput(x) ==
    SelectSeq(x, LAMBDA c : IsWordChar(c) \/ IsSpace(c) \/ c \in {".", ",", "!", "?"})

\* The article_text handed to the chain: full_text[:1500].
PromptText(title, description, content) ==
    Take(Strip(CleanInput(title) \o <<".", " ">> \o CleanInput(description)
               \o <<".", " ">> \o CleanInput(content)), PromptLimit)

\* Tokens of a response that begin, or end, with a word character.
StartsWithWord(t) ==
    t \in {"x", "tags", "tags:", "Tags:", "Tag:", "Headline:", "Summary:"}

EndsWithWord(t) == t \in {"x", "tags"}

\* Where r'Tags?:' (first pass) or r'\bTags?\b' (second pass) matches at
\* token i of s, both with re.IGNORECASE.
TagAt(s, i, first) ==
    IF first
    THEN s[i] \in {"Tags:", "Tag:", "tags:"}
    ELSE /\ s[i] \in {"Tags:", "Tag:", "tags:", "tags"}
         /\ (i > 1 => ~EndsWithWord(s[i - 1]))
         /\ (s[i] = "tags" /\ i < Len(s) => ~StartsWithWord(s[i + 1]))

\* The end of the match of r'\s*.*$' after token i (the first pass skips
\* whitespace, newlines included, before '.*'; '.' matches no newline and
\* '$' matches at the end or before a final newline); -1 when it fails.
TagMatchEnd(s, i, first) ==
    LET rest == Drop(s, i)
        lead == IF first THEN Len(rest) - Len(LStrip(rest)) ELSE 0
        d    == Drop(rest, lead)
        nl   == {j \in 1..Len(d) : d[j] = "\n"}
    IN  IF nl = {} THEN Len(s)
        ELSE IF nl = {Len(d)} THEN Len(s) - 1
        ELSE -1

\* re.sub(r'\s*Tags?:\s*.*$', '', s, flags=re.IGNORECASE)  (first)
\* re.sub(r'\s*\bTags?\b.*$', '', s, flags=re.IGNORECASE)  (second)
RemoveTrailingTags(s, first) ==
    LET hits == {i \in 1..Len(s) : TagAt(s, i, first) /\ TagMatchEnd(s, i, first) # -1}
    IN  IF hits = {} THEN s
        ELSE LET i     == CHOOSE h \in hits : \A g \in hits : h <= g
                 head  == SubSeq(s, 1, i - 1)
                 start == Len(RStrip(head))
             IN  SubSeq(s, 1, start) \o Drop(s, TagMatchEnd(s, i, first))

HeadlineUnavailable == <<"Headline unavailable">>

SummaryUnavailable == <<"Summary unavailable">>

SummaryUnavailableFiltered ==
    <<"Summary unavailable due to content filter or formatting issue.">>

General == <<"General">>

\* Lines 90-94.
ExtractHeadline(result) ==
    IF Contains(result, "Headline:") /\ Contains(result, "Summary:")
    THEN Strip(SplitHead(SplitSecond(result, "Headline:"), "Summary:"))
    ELSE HeadlineUnavailable

\* ExtractSummary with the except branch's literal as the default.
ExtractSummary_ExceptLiteral(result) ==
    LET s1 == IF Contains(result, "Summary:")
              THEN IF Contains(result, "Tag:")
                   THEN Strip(SplitHead(SplitSecond(result, "Summary:"), "Tag:"))
                   ELSE Strip(SplitSecond(result, "Summary:"))
              ELSE SummaryUnavailableFiltered
        s2 == IF Contains(s1, "Tags:") THEN Strip(SplitHead(s1, "Tags:")) ELSE s1
    IN  RemoveTrailingTags(RemoveTrailingTags(s2, TRUE), FALSE)

\* Lines 96-110.
ExtractSummary(result) ==
    LET s1 == IF Contains(result, "Summary:")
              THEN IF Contains(result, "Tag:")
                   THEN Strip(SplitHead(SplitSecond(result, "Summary:"), "Tag:"))
                   ELSE Strip(SplitSecond(result, "Summary:"))
              ELSE SummaryUnavailable
        s2 == IF Contains(s1, "Tags:") THEN Strip(SplitHead(s1, "Tags:")) ELSE s1
    IN  RemoveTrailingTags(RemoveTrailingTags(s2, TRUE), FALSE)

\* Lines 113-120.
ExtractTags(result) ==
    IF Contains(result, "Tags:")
    THEN LET pieces   == SplitOn(Strip(SplitSecond(result, "Tags:")), ",")
             stripped == [k \in 1..Len(pieces) |-> Strip(pieces[k])]
         IN  Take(SelectSeq(stripped, LAMBDA t : t # <<>>), MaxTags)
    ELSE <<General>>

\* The except branch, lines 122-126.
Fallback ==
    [headline |-> HeadlineUnavailable,
     summary  |-> SummaryUnavailableFiltered,
     tags     |-> <<General>>]

\* summarize_article_tool whose except branch leaves the defaults of the
\* try branch in place.
summarize_article_tool_TryDefaults(title, description, content, llm) ==
    IF llm.raised
    THEN [headline |-> HeadlineUnavailable,
          summary  |-> SummaryUnavailable,
          tags     |-> <<General>>]
    ELSE [headline |-> ExtractHeadline(llm.text),
          summary  |-> ExtractSummary(llm.text),
          tags     |-> ExtractTags(llm.text)]

\* llm is what chain.run did: [raised |-> TRUE] or [raised |-> FALSE, text |-> ...].
summarize_article_tool(title, description, content, llm) ==
    IF llm.raised
    THEN Fallback
    ELSE [headline |-> ExtractHeadline(llm.text),
          summary  |-> ExtractSummary(llm.text),
          tags     |-> ExtractTags(llm.text)]

(***************************************************************************)
(* combine_and_trim_description (src/main.py 261-272).  "[+N chars]" is    *)
(* one token: a match of the truncation-marker pattern of line 262.        *)
(***************************************************************************)
TruncationMarker == "[+N chars]"

\* [a-zA-Z0-9\s.,!?]: ASCII letters and digits only.
IsTrimChar(c) ==
    c \in {"a", "b", "A", "B", "e", "1", " ", "\n", ".", ",", "!", "?"}

\* str.rfind('.'), 1-based; 0 when there is none.
LastPeriod(s) ==
    CHOOSE r \in
        {LET at == {i \in 1..Len(v) : v[i] = "."}
         IN  IF at = {} THEN 0 ELSE CHOOSE i \in at : \A j \in at : j <= i
         : v \in {s}} : TRUE

\* str.rstrip('.')
RStripPeriods(s) ==
    CHOOSE r \in
        {LET np == {i \in 1..Len(v) : v[i] # "."}
         IN  IF np = {} THEN <<>>
             ELSE SubSeq(v, 1, CHOOSE i \in np : \A j \in np : j <= i)
         : v \in {s}} : TRUE

combine_and_trim_description(description, content) ==
    LET content1  == SelectSeq(content, LAMBDA c : c # TruncationMarker)
        combined1 == Strip(Strip(description) \o <<" ">> \o Strip(content1))
        combined2 == SelectSeq(combined1, IsTrimChar)
        combined3 == Take(combined2, TrimLimit)
        last_sentence_end == LastPeriod(combined3)
        combined4 == IF last_sentence_end # 0
                     THEN Take(combined3, last_sentence_end)
                     ELSE RStripPeriods(combined3) \o <<".">>
    IN  Strip(combined4)

(***************************************************************************)
(* clean_text (src/main.py 131-134): NFKD, then what latin-1 cannot        *)
(* encode is dropped.  "E_ACUTE" is U+00E9, which decomposes into "e" and  *)
(* a combining accent (dropped); "RSQUO" is U+2019, dropped.               *)
(***************************************************************************)
CleanChar(c) ==
    IF c = "E_ACUTE" THEN <<"e">> ELSE IF c = "RSQUO" THEN <<>> ELSE <<c>>

RECURSIVE clean_text(_)
clean_text(text) ==
    CHOOSE r \in
        {IF v = <<>> THEN <<>> ELSE CleanChar(Head(v)) \o clean_text(Tail(v))
         : v \in {text}} : TRUE

(***************************************************************************)
(* generate_pdf (src/main.py 137-228).  The document is the sequence of    *)
(* the texts written to it, in order; page breaks, fonts and the PDF       *)
(* encoding of FPDF are left out, and the clock reads "<now>".             *)
(***************************************************************************)
\* str() of a small number.
NumStr(n) ==
    IF n = 0 THEN "0" ELSE IF n = 1 THEN "1" ELSE IF n = 2 THEN "2"
    ELSE IF n = 3 THEN "3" ELSE IF n = 4 THEN "4" ELSE IF n = 5 THEN "5" ELSE "many"

\* ", ".join(tags)
RECURSIVE JoinTags(_)
JoinTags(tags) ==
    IF tags = <<>> THEN <<>>
    ELSE IF Len(tags) = 1 THEN tags[1]
    ELSE tags[1] \o <<",", " ">> \o JoinTags(Tail(tags))

\* PDF.header, lines 140-146.
PdfHeader(topic) ==
    << <<"AI News Summarizer Report">>,
       clean_text(<<"Topic: ">> \o topic),
       <<"Generated on: ", "<now>">> >>

\* PDF.add_article, lines 153-214.
AddArticle(article, summary, idx, total) ==
    << <<"Article ", NumStr(idx)>>,
       <<"Title:">>, clean_text(article.title),
       <<"Description:">>,
       clean_text(combine_and_trim_description(article.description, article.content)),
       <<"Source & Date:">>,
       clean_text(article.source \o <<" | ">> \o summary.date),
       <<"URL:">>, clean_text(article.url),
       <<"AI Generated Summary ", NumStr(idx)>>,
       <<"Generated Headline:">>, clean_text(summary.headline),
       <<"Summary:">>, clean_text(summary.summary),
       <<"Tags:">>, clean_text(JoinTags(summary.tags)) >>
    \o (IF idx < total THEN << <<"----">> >> ELSE <<>>)

\* The sections of zip(articles, summaries), from position idx on.
RECURSIVE PdfSections(_, _, _)
PdfSections(articles, summaries, idx) ==
    IF idx > Min(Len(articles), Len(summaries)) THEN <<>>
    ELSE AddArticle(articles[idx], summaries[idx], idx, Len(articles))
         \o PdfSections(articles, summaries, idx + 1)

PdfFooter == << <<"Page ", "1">> >>

\* generate_pdf that renders nothing when there are no articles.
generate_pdf_NothingWhenEmpty(articles, summaries, topic) ==
    IF articles = <<>> THEN <<>>
    ELSE PdfHeader(topic)
         \o << <<"Total Articles Found: ", NumStr(Len(articles))>> >>
         \o PdfSections(articles, summaries, 1)
         \o PdfFooter

generate_pdf(articles, summaries, topic) ==
    PdfHeader(topic)
    \o << <<"Total Articles Found: ", NumStr(Len(articles))>> >>
    \o PdfSections(articles, summaries, 1)
    \o PdfFooter

(***************************************************************************)
(* The inputs the environment supplies: what the news backend answers,     *)
(* what the language model answers, what the user types.                   *)
(***************************************************************************)
IsoStamp == <<"2024", "-", "03", "-", "05", "T", "14", ":", "30", ":", "00", "Z">>

\* Raw articles of the news backend.
RawBoth ==
    [title |-> <<"A", " ", "b">>, description |-> <<"b", ".">>,
     content |-> <<"a", TruncationMarker>>, source |-> [name |-> <<"BBC">>],
     publishedAt |-> IsoStamp, url |-> <<"u1">>]

RawOne ==
    [title |-> <<"a", "+">>, description |-> <<"E_ACUTE">>,
     content |-> <<>>, source |-> [name |-> <<"CNN">>],
     publishedAt |-> <<"yesterday">>, url |-> <<"u2">>]

RawNone ==
    [title |-> <<"a", "b">>, description |-> <<>>,
     content |-> <<>>, source |-> [name |-> <<>>],
     publishedAt |-> <<>>, url |-> <<"u3">>]

Catalog == {RawBoth, RawOne, RawNone}

NewsResponses(n) ==
    [status : {"ok", "error"}, articles : UNION {[1..k -> Catalog] : k \in 0..n}]

\* The topics typed into the text input; the empty one is no query.
SessionTopics == {<<>>, <<"a">>, <<"A", " ", "b">>}

WellFormed ==
    <<"Headline:", " ", "x", "\n", "Summary:", " ", "x", ".", "\n",
      "Tags:", " ", "x", ",", " ", "x">>

LLMAlphabet ==
    {"Headline:", "Summary:", "Tags:", "Tag:", "tags", "tags:", "x", ",", " ", "\n"}

LLMRaised == [raised |-> TRUE, text |-> <<>>]

LLMText(t) == [raised |-> FALSE, text |-> t]

\* What chain.run does in a pipeline run.
PipeLLMOutcomes == {LLMRaised, LLMText(WellFormed)}

(***************************************************************************)
(* State.                                                                  *)
(***************************************************************************)
VARIABLES
    session_state,  \* st.session_state: per topic, the cached output
    reruns,         \* script reruns so far in this session
    node,           \* "ui", or the graph node app.invoke is at
    state,          \* the NewsState of the run in flight
    acc,            \* summarize_node's list under construction
    log,            \* what the run in flight has done so far
    shown,          \* what the script's last run read back and rendered
    fn,             \* a function called on its own: which, and whether it returned
    arg,            \* its arguments
    ret             \* its result

vars == <<session_state, reruns, node, state, acc, log, shown, fn, arg, ret>>

\* NewsState as the UI builds it (line 295).
InputState(topic) ==
    [topic |-> topic, articles |-> <<>>, summaries |-> <<>>,
     pdf_path |-> <<>>, pdf_bytes |-> <<>>]

NoEntry == [present |-> FALSE, articles |-> <<>>, summaries |-> <<>>, pdf_bytes |-> <<>>]

\* A script run that rendered no result: no topic typed, or still fetching.
Blank ==
    [topic |-> <<>>, fetched |-> FALSE,
     articles |-> <<>>, summaries |-> <<>>, pdf_bytes |-> <<>>]

\* Lines 304-306: the script reads the three entries of `topic` back from the
\* session (a missing key reads as empty) and renders them; `fetched` tells
\* whether this script run went through app.invoke.
Render(ss, topic, fetched) ==
    [topic |-> topic, fetched |-> fetched,
     articles |-> ss[topic].articles, summaries |-> ss[topic].summaries,
     pdf_bytes |-> ss[topic].pdf_bytes]

\* workflow.add_edge, lines 279-282 (graph_logic.py 9-12).
Edges ==
    {<<"START", "get_news">>, <<"get_news", "summarize_news">>,
     <<"summarize_news", "generate_pdf">>, <<"generate_pdf", "END">>}

\* The graph with the edge out of get_news leading to generate_pdf.
NextNode_SkipsSummarize(n) ==
    IF n = "get_news" THEN "generate_pdf"
    ELSE CHOOSE m \in {e[2] : e \in {d \in Edges : d[1] = n}} : TRUE

\* The node the compiled graph runs after n.
NextNode(n) == CHOOSE m \in {e[2] : e \in {d \in Edges : d[1] = n}} : TRUE

\* A log entry: a node that returned, or call i of the language model with
\* the article text it was sent and whether it raised.
Done(stage) == [stage |-> stage, call |-> 0, raised |-> FALSE, sent |-> <<>>]

Called(i, article, llm) ==
    [stage |-> "summarize_news", call |-> i, raised |-> llm.raised,
     sent |-> PromptText(article.title, article.description, article.content)]

PipelineIdle ==
    /\ session_state = [t \in SessionTopics |-> NoEntry]
    /\ reruns = 0
    /\ node = "ui"
    /\ state = InputState(<<>>)
    /\ acc = <<>>
    /\ log = <<>>
    /\ shown = Blank

NoCall == fn = "none" /\ arg = <<>> /\ ret = <<>>

Init == PipelineIdle /\ NoCall

(***************************************************************************)
(* The Streamlit script (lines 289-306) and the graph nodes.               *)
(***************************************************************************)
\* The cache test taken as "the session holds some article for the topic".
InSession_WhenArticles(ss, topic) == ss[topic].articles # <<>>

\* Line 293: the key articles_<topic> is in the session.
InSession(ss, topic) == ss[topic].present

\* One rerun of the script with `topic` in the text input: up to app.invoke
\* when the topic is not in the session, to the end of the script otherwise.
UIRerun(topic) ==
    /\ node = "ui"
    /\ reruns < MaxReruns
    /\ reruns' = reruns + 1
    /\ IF topic # <<>> /\ ~InSession(session_state, topic)
       THEN /\ state' = InputState(topic)
            /\ node' = NextNode("START")
            /\ log' = <<>>
            /\ shown' = Blank
       ELSE /\ shown' = IF topic = <<>> THEN Blank
                        ELSE Render(session_state, topic, FALSE)
            /\ UNCHANGED <<state, node, log>>
    /\ UNCHANGED <<session_state, acc, fn, arg, ret>>

\* The graph applies a node's return value to the run's NewsState: the keys
\* the node returned are overwritten, every other key keeps its value.
Merge(st, update) ==
    [k \in DOMAIN st |-> IF k \in DOMAIN update THEN update[k] ELSE st[k]]

\* get_news_node returning the topic in lower case next to the articles.
get_news_node_WritesTopic(st, response) ==
    [articles |-> get_news(st.topic, response), topic |-> Lower(st.topic)]

\* get_news_node, lines 235-236.
get_news_node(st, response) == [articles |-> get_news(st.topic, response)]

GetNewsNode ==
    /\ node = "get_news"
    /\ \E response \in NewsResponses(MaxPipeResp) :
           state' = Merge(state, get_news_node(state, response))
    /\ node' = NextNode(node)
    /\ log' = Append(log, Done("get_news"))
    /\ UNCHANGED <<session_state, reruns, acc, shown, fn, arg, ret>>

\* SummaryOf with the date left as the backend gave it.
SummaryOf_RawDate(article, llm) ==
    LET r == summarize_article_tool(article.title, article.description,
                                    article.content, llm)
    IN  [headline |-> r.headline, summary |-> r.summary, tags |-> r.tags,
         source |-> article.source, date |-> article.publishedAt]

\* One element of summarize_node's list, lines 240-248.
SummaryOf(article, llm) ==
    LET r == summarize_article_tool(article.title, article.description,
                                    article.content, llm)
    IN  [headline |-> r.headline, summary |-> r.summary, tags |-> r.tags,
         source |-> article.source, date |-> format_date(article.publishedAt)]

\* summarize_node, one iteration of the comprehension: one call of the model.
SummarizeCall ==
    /\ node = "summarize_news"
    /\ Len(acc) < Len(state.articles)
    /\ \E llm \in PipeLLMOutcomes :
           /\ acc' = Append(acc, SummaryOf(state.articles[Len(acc) + 1], llm))
           /\ log' = Append(log, Called(Len(acc) + 1, state.articles[Len(acc) + 1], llm))
    /\ UNCHANGED <<session_state, reruns, node, state, shown, fn, arg, ret>>

\* summarize_node returns, line 251.
SummarizeReturn ==
    /\ node = "summarize_news"
    /\ Len(acc) = Len(state.articles)
    /\ state' = Merge(state, [summaries |-> acc])
    /\ acc' = <<>>
    /\ node' = NextNode(node)
    /\ log' = Append(log, Done("summarize_news"))
    /\ UNCHANGED <<session_state, reruns, shown, fn, arg, ret>>

\* generate_pdf_node, lines 230-232.
generate_pdf_node(st) ==
    [pdf_bytes |-> generate_pdf(st.articles, st.summaries, st.topic)]

GeneratePdfNode ==
    /\ node = "generate_pdf"
    /\ state' = Merge(state, generate_pdf_node(state))
    /\ node' = NextNode(node)
    /\ log' = Append(log, Done("generate_pdf"))
    /\ UNCHANGED <<session_state, reruns, acc, shown, fn, arg, ret>>

\* app.invoke returned: the output is stored (lines 299-301), then the script
\* reads it back and renders it (lines 304-306).
UIStore ==
    /\ node = "END"
    /\ session_state' =
           [session_state EXCEPT ![state.topic] =
               [present |-> TRUE, articles |-> state.articles,
                summaries |-> state.summaries, pdf_bytes |-> state.pdf_bytes]]
    /\ shown' = Render(session_state', state.topic, TRUE)
    /\ node' = "ui"
    /\ UNCHANGED <<reruns, state, acc, log, fn, arg, ret>>

Next ==
    \/ \E topic \in SessionTopics : UIRerun(topic)
    \/ GetNewsNode
    \/ SummarizeCall
    \/ SummarizeReturn
    \/ GeneratePdfNode
    \/ UIStore

Spec == Init /\ [][Next]_vars

\* The script and the graph run on one thread, with no timeouts of their own:
\* a run in flight takes its next step whenever the backends answer.
RunStep == GetNewsNode \/ SummarizeCall \/ SummarizeReturn \/ GeneratePdfNode \/ UIStore

FairSpec == Spec /\ WF_vars(RunStep)

(***************************************************************************)
(* The functions on their own, over bounded inputs.                        *)
(***************************************************************************)
RelAlphabet == {"a", "A", "b", "+", " "}

RelTopics == Texts({"a", "A", "+", " "}, MaxTopicLen)

RelArticles ==
    [title : Texts(RelAlphabet, MaxTitleLen),
     description : {<<>>, <<"+", "a">>},
     content : {<<>>, <<"b">>}]

InitRelevant ==
    /\ PipelineIdle
    /\ fn = "is_relevant"
    /\ arg \in [article : RelArticles, topic : RelTopics]
    /\ ret = FALSE

CallIsRelevant ==
    /\ fn = "is_relevant"
    /\ ret' = is_relevant(arg.article, arg.topic)
    /\ fn' = "is_relevant returned"
    /\ UNCHANGED <<session_state, reruns, node, state, acc, log, shown, arg>>

SpecRelevant == InitRelevant /\ [][CallIsRelevant]_vars

FetchTopics == {<<"a">>, <<"A", " ", "b">>, <<" ">>}

InitFetch ==
    /\ PipelineIdle
    /\ fn = "get_news"
    /\ arg \in [topic : FetchTopics, response : NewsResponses(MaxFetchResp)]
    /\ ret = <<>>

CallGetNews ==
    /\ fn = "get_news"
    /\ ret' = get_news(arg.topic, arg.response)
    /\ fn' = "get_news returned"
    /\ UNCHANGED <<session_state, reruns, node, state, acc, log, shown, arg>>

SpecFetch == InitFetch /\ [][CallGetNews]_vars

SummarizeInputs ==
    {[title |-> <<>>, description |-> <<>>, content |-> <<>>],
     [title |-> <<"a", "+">>, description |-> <<"b", ".">>, content |-> <<"RSQUO", "a">>]}

LLMOutcomes == {LLMRaised} \cup {LLMText(t) : t \in Texts(LLMAlphabet, MaxLLMLen)}

InitSummarize ==
    /\ PipelineIdle
    /\ fn = "summarize_article_tool"
    /\ arg \in [input : SummarizeInputs, llm : LLMOutcomes]
    /\ ret = Fallback

CallSummarize ==
    /\ fn = "summarize_article_tool"
    /\ ret' = summarize_article_tool(arg.input.title, arg.input.description,
                                     arg.input.content, arg.llm)
    /\ fn' = "summarize_article_tool returned"
    /\ UNCHANGED <<session_state, reruns, node, state, acc, log, shown, arg>>

SpecSummarize == InitSummarize /\ [][CallSummarize]_vars

\* n copies of the character c.
Rep(c, n) == [i \in 1..n |-> c]

\* Texts made of a few pieces, long enough to reach the 700-character cut.
Chunks == {Rep("a", 350), <<".">>, <<" ">>, <<"+">>}

RECURSIVE Flatten(_)
Flatten(pieces) ==
    IF pieces = <<>> THEN <<>> ELSE Head(pieces) \o Flatten(Tail(pieces))

ChunkTexts == {Flatten(p) : p \in UNION {[1..k -> Chunks] : k \in 0..MaxChunks}}

InitTrim ==
    /\ PipelineIdle
    /\ fn = "combine_and_trim_description"
    /\ arg \in [description : ChunkTexts,
                content : {<<>>, <<"b", TruncationMarker>>, <<"a", ".">>}]
    /\ ret = <<>>

CallCombineAndTrim ==
    /\ fn = "combine_and_trim_description"
    /\ ret' = combine_and_trim_description(arg.description, arg.content)
    /\ fn' = "combine_and_trim_description returned"
    /\ UNCHANGED <<session_state, reruns, node, state, acc, log, shown, arg>>

SpecTrim == InitTrim /\ [][CallCombineAndTrim]_vars

(***************************************************************************)
(* Properties.                                                             *)
(***************************************************************************)
InLog(entry) == \E k \in 1..Len(log) : log[k] = entry

\* The i-th smallest member of a set of numbers.
Nth(set, i) == CHOOSE x \in set : Cardinality({y \in set : y <= x}) = i

\* The dictionaries of the first (at most MaxArticles) relevant raw articles,
\* in the order the backend gave them.
FirstRelevant(topic, raw) ==
    LET rel == {i \in 1..Len(raw) : is_relevant(raw[i], topic)}
    IN  [k \in 1..Min(MaxArticles, Cardinality(rel)) |-> ArticleOf(raw[Nth(rel, k)])]

\* C1: once summarize_news has completed in a run, and from then on, there
\* are as many summaries as articles, and summaries[i] carries the source of
\* articles[i] and the formatted publishedAt of articles[i], whether or not
\* calls of the language model failed.
C1_SummariesPairWithArticles ==
    InLog(Done("summarize_news")) =>
        /\ Len(state.summaries) = Len(state.articles)
        /\ \A i \in 1..Len(state.articles) :
               /\ state.summaries[i].source = state.articles[i].source
               /\ state.summaries[i].date = format_date(state.articles[i].publishedAt)

\* C1, the case: a finished run over two different articles, of which one has
\* a timestamp that parses, and one call of the language model failed.
C1_Witness ==
    /\ node = "END"
    /\ Len(state.articles) = 2
    /\ state.articles[1].source # state.articles[2].source
    /\ \E i \in 1..2 : state.summaries[i].date # state.articles[i].publishedAt
    /\ \E k \in 1..Len(log) : log[k].raised

\* C2 as stated: at most 5 articles come back, each relevant to the topic,
\* and they are the first relevant ones in backend order, for every response.
C2_FirstRelevantForEveryResponse ==
    fn = "get_news returned" =>
        /\ Len(ret) <= MaxArticles
        /\ \A i \in 1..Len(ret) : is_relevant(ret[i], arg.topic)
        /\ ret = FirstRelevant(arg.topic, arg.response.articles)

\* C2, amended: at most 5 articles come back, each relevant to the topic;
\* for a response whose status is ok they are the first relevant ones in
\* backend order, and for any other response there are none.
C2_FirstRelevantWhenOk ==
    fn = "get_news returned" =>
        /\ Len(ret) <= MaxArticles
        /\ \A i \in 1..Len(ret) : is_relevant(ret[i], arg.topic)
        /\ ret = IF arg.response.status = "ok"
                 THEN FirstRelevant(arg.topic, arg.response.articles)
                 ELSE <<>>

\* C2, the case: an ok response with more than 5 relevant articles, the
\* first of them behind an irrelevant one.
C2_Witness ==
    /\ fn = "get_news returned"
    /\ arg.response.status = "ok"
    /\ Len(arg.response.articles) > MaxArticles
    /\ ~is_relevant(arg.response.articles[1], arg.topic)
    /\ \A i \in 2..Len(arg.response.articles) :
           is_relevant(arg.response.articles[i], arg.topic)
    /\ Len(ret) = MaxArticles

\* C8: a response whose status is not ok yields no articles, whatever
\* articles it carries.
C8_NonOkYieldsNothing ==
    (fn = "get_news returned" /\ arg.response.status # "ok") => ret = <<>>

\* C8, the case: a non-ok response that carries a relevant article.
C8_Witness ==
    /\ fn = "get_news returned"
    /\ arg.response.status # "ok"
    /\ \E i \in 1..Len(arg.response.articles) :
           is_relevant(arg.response.articles[i], arg.topic)

\* C3: summarize_article_tool returns at most 3 tags, a non-empty headline
\* and a non-empty summary, whatever its input and whatever the language
\* model answered.
C3_HeadlineAndSummaryNeverEmpty ==
    fn = "summarize_article_tool returned" =>
        /\ Len(ret.tags) <= MaxTags
        /\ ret.headline # <<>>
        /\ ret.summary # <<>>

NoMarkers(text) ==
    /\ ~Contains(text, "Headline:")
    /\ ~Contains(text, "Summary:")
    /\ ~Contains(text, "Tags:")

\* C4 as stated: an answer with none of the markers Headline:, Summary:,
\* Tags: parses to the fallback triple of the except branch.
C4_NoMarkersGivesExceptTriple ==
    (fn = "summarize_article_tool returned" /\ ~arg.llm.raised /\ NoMarkers(arg.llm.text)) =>
        ret = Fallback

\* C4, amended: an answer with none of the markers Headline:, Summary:,
\* Tags: parses to headline "Headline unavailable", summary
\* "Summary unavailable" and tags ["General"].
C4_NoMarkersGivesDefaults ==
    (fn = "summarize_article_tool returned" /\ ~arg.llm.raised /\ NoMarkers(arg.llm.text)) =>
        ret = [headline |-> HeadlineUnavailable,
               summary  |-> SummaryUnavailable,
               tags     |-> <<General>>]

\* C4, the case: a non-empty answer without the three markers has been parsed.
C4_Witness ==
    /\ fn = "summarize_article_tool returned"
    /\ ~arg.llm.raised
    /\ NoMarkers(arg.llm.text)
    /\ Contains(arg.llm.text, "x")
    /\ Contains(arg.llm.text, "Tag:")

\* C6: the text combine_and_trim_description returns is never longer than
\* 700 characters.
C6_TrimmedWithinLimit ==
    fn = "combine_and_trim_description returned" => Len(ret) <= TrimLimit

\* word occurs in text as a whole word: with no word character right before
\* it and none right after it.
OccursAsWholeWord(word, text) ==
    \E p \in Occurrences(word, text) :
        /\ (p >= 1 => ~IsWordChar(text[p]))
        /\ (p + Len(word) < Len(text) => ~IsWordChar(text[p + Len(word) + 1]))

\* C7: is_relevant is true exactly when every whitespace-split keyword of
\* the lower-cased topic occurs as a whole word in the lower-cased
\* concatenation of title, description and content.
C7_RelevantIffAllKeywordsWholeWords ==
    fn = "is_relevant returned" =>
        (ret <=> \A k \in 1..Len(SplitWords(Lower(arg.topic))) :
                     OccursAsWholeWord(SplitWords(Lower(arg.topic))[k],
                                       CombinedText(arg.article)))

\* The summary built for article i of the run in flight.
SummaryAt(i) == IF i <= Len(acc) THEN acc[i] ELSE state.summaries[i]

\* C5: when the call of the language model raises for an article, that
\* article gets the fallback triple of the except branch, every article is
\* still summarized, and the run goes on to render the report.
C5_RaiseYieldsFallbackAndRunGoesOn ==
    /\ [](\A k \in 1..Len(log) :
              log[k].raised =>
                  /\ SummaryAt(log[k].call).headline = Fallback.headline
                  /\ SummaryAt(log[k].call).summary = Fallback.summary
                  /\ SummaryAt(log[k].call).tags = Fallback.tags)
    /\ [](node = "END" =>
              /\ Len(state.summaries) = Len(state.articles)
              /\ state.pdf_bytes # <<>>)
    /\ ((\E k \in 1..Len(log) : log[k].raised) ~> InLog(Done("generate_pdf")))

\* C5, the case: the call for the first of two articles raised, the second
\* was summarized from an answer, and the report was rendered.
C5_Witness ==
    /\ node = "END"
    /\ Len(state.articles) = 2
    /\ \E k \in 1..Len(log) : log[k].raised /\ log[k].call = 1
    /\ \E k \in 1..Len(log) : ~log[k].raised /\ log[k].call = 2
    /\ state.summaries[2].headline # Fallback.headline

\* C9: a run whose fetch found no relevant article ends with no summaries
\* and with a rendered report: the header, a "Total Articles Found: 0" line
\* and no article section.
C9_EmptyRunStillRenders ==
    (node = "END" /\ state.articles = <<>>) =>
        /\ state.summaries = <<>>
        /\ InLog(Done("summarize_news"))
        /\ InLog(Done("generate_pdf"))
        /\ Len(state.pdf_bytes) >= 4
        /\ state.pdf_bytes[1] = <<"AI News Summarizer Report">>
        /\ state.pdf_bytes[2][1] = "Topic: "
        /\ state.pdf_bytes[4] = <<"Total Articles Found: ", "0">>
        /\ \A k \in 1..Len(state.pdf_bytes) :
               /\ state.pdf_bytes[k][1] # "Article "
               /\ state.pdf_bytes[k][1] # "AI Generated Summary "

\* C9, the case: a run for a topic has fetched no relevant article and has
\* reached its end with a report.
C9_Witness ==
    /\ node = "END"
    /\ state.topic # <<>>
    /\ state.articles = <<>>
    /\ state.pdf_bytes # <<>>

\* What a run over n articles does, in order.
ExpectedSteps(n) ==
    << <<"get_news", 0>> >>
    \o [i \in 1..n |-> <<"summarize_news", i>>]
    \o << <<"summarize_news", 0>>, <<"generate_pdf", 0>> >>

StepsDone == [k \in 1..Len(log) |-> <<log[k].stage, log[k].call>>]

Written == {k \in DOMAIN state : state'[k] # state[k]}

\* C11: each stage writes only its own field of the run's state and leaves
\* every other field as it was: a step of get_news changes nothing but
\* articles, a step of summarize_news nothing but summaries (articles stay),
\* a step of generate_pdf nothing but pdf_bytes (topic, articles and
\* summaries stay), and from the start of a run to its end no step changes
\* topic.
C11_StagesWriteOnlyTheirField ==
    [][/\ node = "get_news" => Written \subseteq {"articles"}
       /\ node = "summarize_news" => Written \subseteq {"summaries"}
       /\ node = "generate_pdf" => Written \subseteq {"pdf_bytes"}
       /\ node # "ui" => state'.topic = state.topic
       /\ DOMAIN state' = DOMAIN state]_vars

\* C11, the case: a run has been through all three stages and each of them
\* has written something into its field.
C11_Witness ==
    /\ node = "END"
    /\ state.topic # <<>>
    /\ state.articles # <<>>
    /\ state.summaries # <<>>
    /\ state.pdf_bytes # <<>>

\* The topic typed for the script run a step starts: the one the pipeline is
\* invoked with, or else the one whose entries are rendered.
RerunTopic == IF node' # "ui" THEN state'.topic ELSE shown'.topic

====
